---- MODULE Spec2Model ----
(***************************************************************************)
(* Model of src/app.py: the Dropbox MCP gateway.  One POST /mcp request is *)
(* handled at a time by mcp_handler, which dispatches tools/call to        *)
(* call_tool, which routes to one of fourteen tool implementations; each   *)
(* implementation talks to the Dropbox backend.  The backend is the        *)
(* environment: what each of its calls answers (a page, a fault) is chosen *)
(* nondeterministically.                                                   *)
(*                                                                         *)
(* Python strings that are only built and inspected (error messages,       *)
(* str(e)) are sequences of tokens; "x in s" is membership of a token.     *)
(***************************************************************************)
EXTENDS Integers, Sequences, FiniteSets, TLC

VARIABLES
    env,        \* the four credential settings read at import (app.py 23-26)
    TOOLS,      \* the module-level catalog list (app.py 48-299)
    store,      \* backend: what lives at each path ("none", "folder", or a file)
    links,      \* backend: number of shared links of each path
    pc,         \* "idle", or "list_folder" while its pagination loop runs
    req,        \* the request being handled (the last one, when idle)
    resp,       \* what the transport got back for the last finished request
    invoked,    \* tool implementations call_tool invoked for req, in order
    caught,     \* class of the exception call_tool's handler caught for req
    calls,      \* backend calls made for req, in order (of a run of
                \* continuation calls only the latest is kept)
    lf,         \* locals of the running (or last) list_folder invocation, with
                \* the number of continuation pages it was answered, modulo 2
    cf,         \* history of the current run of create_folder calls on one path
    uploaded,   \* history: for each path, the text whose upload was the last
                \* write to it, if that is what the last write was
    initialized \* history: an initialize request has been answered

vars ==
    <<env, TOOLS, store, links, pc, req, resp, invoked, caught, calls, lf, cf,
      uploaded, initialized>>

--------------------------------------------------------------------------
(* Bounds of the model *)

\* longest page the backend returns in the small range
MaxPage == 2
\* a page longer than every default ceiling (100, 50, 10)
BigPage == 101
\* largest explicit limit / max_results a request carries
MaxLimit == 2
\* most entries the backend hands out in pages of the small range
MaxSeen == 4
\* longest run of create_folder calls on one path that is counted
MaxRepeat == 3
Paths == {"/a", "/b"}

Min(a, b) == IF a <= b THEN a ELSE b
Max(a, b) == IF a >= b THEN a ELSE b

\* Python's s[:n]
SliceTo(s, n) ==
    IF n >= 0 THEN SubSeq(s, 1, Min(n, Len(s)))
    ELSE SubSeq(s, 1, Max(Len(s) + n, 0))

\* the entries numbered from+1 .. from+n, in backend order
Run(from, n) == [i \in 1..n |-> from + i]

--------------------------------------------------------------------------
(* Signatures of the tool implementations (their def lines) *)

list_folder_default_limit == 100
search_files_default_max_results == 50
list_revisions_default_limit == 10
list_folder_page_cap == 2000
search_files_page_cap == 1000

ToolNames ==
    << "list_folder", "search_files", "get_file_metadata", "download_file",
       "read_text_file", "upload_file", "create_folder", "move_file",
       "copy_file", "delete_file", "get_shared_link", "list_revisions",
       "get_space_usage", "test_connection" >>

\* the keys of call_tool's tool_map
tool_map == {ToolNames[i] : i \in 1..Len(ToolNames)}

\* parameter names of each implementation, and those without a default
ToolParams(t) ==
    CASE t = "list_folder"       -> {"path", "recursive", "limit"}
      [] t = "search_files"      -> {"query", "path", "file_extensions", "max_results"}
      [] t = "get_file_metadata" -> {"path"}
      [] t = "download_file"     -> {"path", "as_text"}
      [] t = "read_text_file"    -> {"path", "max_bytes"}
      [] t = "upload_file"       -> {"path", "content", "is_base64", "overwrite"}
      [] t = "create_folder"     -> {"path"}
      [] t = "move_file"         -> {"from_path", "to_path"}
      [] t = "copy_file"         -> {"from_path", "to_path"}
      [] t = "delete_file"       -> {"path"}
      [] t = "get_shared_link"   -> {"path", "create_if_missing"}
      [] t = "list_revisions"    -> {"path", "limit"}
      [] OTHER                   -> {}

ToolRequired(t) ==
    CASE t = "search_files"      -> {"query"}
      [] t \in {"get_file_metadata", "download_file", "read_text_file",
                "create_folder", "delete_file", "get_shared_link",
                "list_revisions"} -> {"path"}
      [] t = "upload_file"       -> {"path", "content"}
      [] t \in {"move_file", "copy_file"} -> {"from_path", "to_path"}
      [] OTHER                   -> {}

\* the catalog as data: name, parameters and required parameters per entry
Catalog ==
    [i \in 1..Len(ToolNames) |->
        [name |-> ToolNames[i],
         properties |-> ToolParams(ToolNames[i]),
         required |-> ToolRequired(ToolNames[i])]]

--------------------------------------------------------------------------
(* Exceptions.  An exception is its class and the tokens of str(e). *)

Exc(cls, msg) == [cls |-> cls, msg |-> msg]

NoExc == Exc("none", <<>>)

\* dropbox.exceptions.ApiError: its text carries the provider's error summary
ApiError(summary) == Exc("ApiError", <<"ApiError(", summary, ")">>)

\* a fault the backend can raise on any call, whatever the call is:
\* a provider error, an authentication error, a network error
Faults == {"none", "ApiError", "AuthError", "ConnectionError"}

Injected(f) ==
    CASE f = "ApiError"        -> ApiError("too_many_requests")
      [] f = "AuthError"       -> Exc("AuthError", <<"AuthError(", "expired_access_token", ")">>)
      [] f = "ConnectionError" -> Exc("ConnectionError", <<"Connection aborted">>)
      [] OTHER                 -> NoExc

--------------------------------------------------------------------------
(* Text and bytes.  A str is a sequence of code points, bytes a sequence   *)
(* of 0..255.                                                              *)

\* one code point as UTF-8, <<>> for a surrogate (which cannot be encoded)
Utf8Of(cp) ==
    IF cp < 128 THEN <<cp>>
    ELSE IF cp < 2048 THEN <<192 + (cp \div 64), 128 + (cp % 64)>>
    ELSE IF cp >= 55296 /\ cp <= 57343 THEN <<>>
    ELSE IF cp < 65536
         THEN <<224 + (cp \div 4096), 128 + ((cp \div 64) % 64), 128 + (cp % 64)>>
    ELSE <<240 + (cp \div 262144), 128 + ((cp \div 4096) % 64),
           128 + ((cp \div 64) % 64), 128 + (cp % 64)>>

RECURSIVE Utf8Encode(_)
\* str.encode('utf-8'): [ok, bytes]; not ok is UnicodeEncodeError
Utf8Encode(s) ==
    IF s = <<>> THEN [ok |-> TRUE, bytes |-> <<>>]
    ELSE LET h == Utf8Of(Head(s))
             t == Utf8Encode(Tail(s))
         IN  IF h = <<>> \/ ~t.ok THEN [ok |-> FALSE, bytes |-> <<>>]
             ELSE [ok |-> TRUE, bytes |-> h \o t.bytes]

IsCont(b) == b >= 128 /\ b <= 191

\* length of the well-formed UTF-8 sequence b starts with, 0 when it starts with none
Utf8Lead(b) ==
    LET n == Len(b)
        b1 == b[1]
    IN  IF b1 < 128 THEN 1
        ELSE IF b1 >= 194 /\ b1 <= 223
             THEN IF n >= 2 /\ IsCont(b[2]) THEN 2 ELSE 0
        ELSE IF b1 >= 224 /\ b1 <= 239
             THEN IF /\ n >= 3
                     /\ IsCont(b[2])
                     /\ IsCont(b[3])
                     /\ (b1 = 224 => b[2] >= 160)
                     /\ (b1 = 237 => b[2] <= 159)
                  THEN 3 ELSE 0
        ELSE IF b1 >= 240 /\ b1 <= 244
             THEN IF /\ n >= 4
                     /\ IsCont(b[2])
                     /\ IsCont(b[3])
                     /\ IsCont(b[4])
                     /\ (b1 = 240 => b[2] >= 144)
                     /\ (b1 = 244 => b[2] <= 143)
                  THEN 4 ELSE 0
        ELSE 0

Utf8Cp(b, k) ==
    CASE k = 1 -> b[1]
      [] k = 2 -> (b[1] - 192) * 64 + (b[2] - 128)
      [] k = 3 -> (b[1] - 224) * 4096 + (b[2] - 128) * 64 + (b[3] - 128)
      [] OTHER -> (b[1] - 240) * 262144 + (b[2] - 128) * 4096
                  + (b[3] - 128) * 64 + (b[4] - 128)

Utf8Decode_as_latin1(b) == [ok |-> TRUE, text |-> b]

RECURSIVE Utf8Decode(_)
\* bytes.decode('utf-8'): [ok, text]; not ok is UnicodeDecodeError
Utf8Decode(b) ==
    IF b = <<>> THEN [ok |-> TRUE, text |-> <<>>]
    ELSE LET k == Utf8Lead(b)
         IN  IF k = 0 THEN [ok |-> FALSE, text |-> <<>>]
             ELSE LET t == Utf8Decode(SubSeq(b, k + 1, Len(b)))
                  IN  IF ~t.ok THEN t
                      ELSE [ok |-> TRUE, text |-> <<Utf8Cp(b, k)>> \o t.text]

\* bytes.decode('latin-1'): every byte is its own code point
Latin1Decode(b) == b

\* the base64 alphabet: value of a character, 64 for '=', 65 for any other
B64Val(c) ==
    IF c >= 65 /\ c <= 90 THEN c - 65
    ELSE IF c >= 97 /\ c <= 122 THEN c - 71
    ELSE IF c >= 48 /\ c <= 57 THEN c + 4
    ELSE IF c = 43 THEN 62
    ELSE IF c = 47 THEN 63
    ELSE IF c = 61 THEN 64
    ELSE 65

B64Chr(v) ==
    IF v < 26 THEN v + 65
    ELSE IF v < 52 THEN v + 71
    ELSE IF v < 62 THEN v - 4
    ELSE IF v = 62 THEN 43
    ELSE 47

RECURSIVE A2B(_, _, _, _, _)
\* binascii.a2b_base64, not strict: characters outside the alphabet are
\* skipped, a pad that completes a quad ends the input, and a quad left
\* open at the end is binascii.Error.  quad is the open quad's values.
A2B(s, i, quad, pads, out) ==
    IF i > Len(s)
    THEN [ok |-> quad = <<>>, bytes |-> out]
    ELSE LET v == B64Val(s[i])
         IN  IF v = 64
             THEN IF Len(quad) >= 2 /\ Len(quad) + pads + 1 >= 4
                  THEN [ok |-> TRUE, bytes |-> out]
                  ELSE A2B(s, i + 1, quad, IF Len(quad) >= 2 THEN pads + 1 ELSE pads, out)
             ELSE IF v = 65 THEN A2B(s, i + 1, quad, pads, out)
             ELSE LET q == Append(quad, v)
                  IN  CASE Len(q) = 2 ->
                             A2B(s, i + 1, q, 0,
                                 Append(out, q[1] * 4 + (q[2] \div 16)))
                        [] Len(q) = 3 ->
                             A2B(s, i + 1, q, 0,
                                 Append(out, (q[2] % 16) * 16 + (q[3] \div 4)))
                        [] Len(q) = 4 ->
                             A2B(s, i + 1, <<>>, 0,
                                 Append(out, (q[3] % 4) * 64 + q[4]))
                        [] OTHER -> A2B(s, i + 1, q, 0, out)

\* base64.b64decode(str): [ok, cls, bytes]; a str with a non-ASCII character
\* is ValueError, bad padding is binascii.Error
B64Decode(s) ==
    IF \E i \in 1..Len(s) : s[i] >= 128
    THEN [ok |-> FALSE, cls |-> "ValueError", bytes |-> <<>>]
    ELSE LET r == A2B(s, 1, <<>>, 0, <<>>)
         IN  [ok |-> r.ok, cls |-> IF r.ok THEN "none" ELSE "binascii.Error",
              bytes |-> IF r.ok THEN r.bytes ELSE <<>>]

RECURSIVE B64Encode(_)
\* base64.b64encode(bytes).decode('ascii')
B64Encode(b) ==
    IF b = <<>> THEN <<>>
    ELSE IF Len(b) = 1
         THEN <<B64Chr(b[1] \div 4), B64Chr((b[1] % 4) * 16), 61, 61>>
    ELSE IF Len(b) = 2
         THEN <<B64Chr(b[1] \div 4), B64Chr((b[1] % 4) * 16 + (b[2] \div 16)),
                B64Chr((b[2] % 16) * 4), 61>>
    ELSE <<B64Chr(b[1] \div 4), B64Chr((b[1] % 4) * 16 + (b[2] \div 16)),
           B64Chr((b[2] % 16) * 4 + (b[3] \div 64)), B64Chr(b[3] % 64)>>
         \o B64Encode(SubSeq(b, 4, Len(b)))

--------------------------------------------------------------------------
(* The backend and what an implementation hands back *)

None == [kind |-> "none", data |-> <<>>]
Folder == [kind |-> "folder", data |-> <<>>]
File(bytes) == [kind |-> "file", data |-> bytes]

\* one backend call: the method, its path argument, the limit it was given,
\* the exception class it raised ("none" when it answered), and for a
\* listing call the number of entries of the page and its has_more
Call(op, arg, limit, raised, n, has_more) ==
    [op |-> op, arg |-> arg, limit |-> limit, raised |-> raised, n |-> n,
     has_more |-> has_more]

SimpleCall(op, arg, raised) == Call(op, arg, 0, raised, 0, FALSE)

Failure(msg) == [success |-> FALSE, error |-> msg]

\* an implementation returned out, or raised exc; either way it made the
\* backend calls cl and left the backend as st, lk
Ret(out, cl, st, lk) ==
    [raised |-> FALSE, exc |-> NoExc, out |-> out, calls |-> cl, store |-> st,
     links |-> lk]

Raise(e, cl, st, lk) ==
    [raised |-> TRUE, exc |-> e, out |-> Failure(<<>>), calls |-> cl, store |-> st,
     links |-> lk]

get_dropbox_client(e) ==
    IF e.refresh_token /\ e.app_key /\ e.app_secret
    THEN [ok |-> TRUE, auth |-> "refresh_token", exc |-> NoExc]
    ELSE IF e.access_token
         THEN [ok |-> TRUE, auth |-> "access_token", exc |-> NoExc]
    ELSE [ok |-> FALSE, auth |-> "none",
          exc |-> Exc("ValueError", <<"No Dropbox credentials configured">>)]

\* "except ApiError as e: return {success: False, error: str(e)}"
ExceptApiError(r) ==
    IF r.raised /\ r.exc.cls = "ApiError"
    THEN Ret(Failure(r.exc.msg), r.calls, r.store, r.links)
    ELSE r

\* the body of an implementation that makes one backend call op(arg): the
\* client is built, then the call raises the injected fault f, or the
\* provider's own error err (NoExc when it has none), or answers and the
\* implementation returns out with the backend left as st2, lk2
OneCall(e, op, arg, f, err, out, st, lk, st2, lk2) ==
    LET c == get_dropbox_client(e)
    IN  IF ~c.ok THEN Raise(c.exc, <<>>, st, lk)
        ELSE IF f # "none"
             THEN Raise(Injected(f), <<SimpleCall(op, arg, f)>>, st, lk)
        ELSE IF err # NoExc
             THEN Raise(err, <<SimpleCall(op, arg, err.cls)>>, st, lk)
        ELSE Ret(out, <<SimpleCall(op, arg, "none")>>, st2, lk2)

\* the provider's answer to a lookup of path p
NotFound(st, p) == IF st[p].kind = "none" THEN ApiError("path/not_found") ELSE NoExc

NotFile(st, p) ==
    IF st[p].kind = "none" THEN ApiError("path/not_found")
    ELSE IF st[p].kind = "folder" THEN ApiError("path/not_file")
    ELSE NoExc

get_file_metadata(path, f, e, st, lk) ==
    ExceptApiError(
        OneCall(e, "files_get_metadata", path, f, NotFound(st, path),
                IF st[path].kind = "file"
                THEN [success |-> TRUE, name |-> path, path |-> path, type |-> "file",
                      size |-> Len(st[path].data)]
                ELSE [success |-> TRUE, name |-> path, path |-> path, type |-> "folder"],
                st, lk, st, lk))

download_file(path, as_text, f, e, st, lk) ==
    LET content == st[path].data
        d == Utf8Decode(content)
        out == IF as_text
               THEN IF d.ok
                    THEN [success |-> TRUE, name |-> path, path |-> path,
                          size |-> Len(content), content |-> d.text,
                          encoding |-> "utf-8"]
                    ELSE [success |-> TRUE, name |-> path, path |-> path,
                          size |-> Len(content), content |-> B64Encode(content),
                          encoding |-> "base64",
                          note |-> "Binary file returned as base64"]
               ELSE [success |-> TRUE, name |-> path, path |-> path,
                     size |-> Len(content), content |-> B64Encode(content),
                     encoding |-> "base64"]
    IN  ExceptApiError(
            OneCall(e, "files_download", path, f, NotFile(st, path), out,
                    st, lk, st, lk))

read_text_file(path, max_bytes, f, e, st, lk) ==
    LET whole == st[path].data
        content == SliceTo(whole, max_bytes)
        d == Utf8Decode(content)
        text == IF d.ok THEN d.text ELSE Latin1Decode(content)
    IN  ExceptApiError(
            OneCall(e, "files_download", path, f, NotFile(st, path),
                    [success |-> TRUE, name |-> path, path |-> path,
                     size |-> Len(whole), content |-> text,
                     truncated |-> Len(whole) > max_bytes,
                     bytes_read |-> Len(content)],
                    st, lk, st, lk))

\* the provider's answer to a write of data at p
UploadError(st, p, data, overwrite) ==
    IF st[p].kind = "folder" THEN ApiError("path/conflict/folder")
    ELSE IF st[p].kind = "file" /\ ~overwrite /\ st[p].data # data
         THEN ApiError("path/conflict/file")
    ELSE NoExc

upload_file(path, content, is_base64, overwrite, f, e, st, lk) ==
    LET c == get_dropbox_client(e)
        b == B64Decode(content)
        u == Utf8Encode(content)
        data == IF is_base64 THEN b.bytes ELSE u.bytes
    IN  ExceptApiError(
            IF ~c.ok THEN Raise(c.exc, <<>>, st, lk)
            ELSE IF is_base64 /\ ~b.ok
                 THEN Raise(Exc(b.cls, <<"Incorrect padding">>), <<>>, st, lk)
            ELSE IF ~is_base64 /\ ~u.ok
                 THEN Raise(Exc("UnicodeEncodeError", <<"surrogates not allowed">>),
                            <<>>, st, lk)
            ELSE OneCall(e, "files_upload", path, f,
                         UploadError(st, path, data, overwrite),
                         [success |-> TRUE, name |-> path, path |-> path,
                          size |-> Len(data)],
                         st, lk, [st EXCEPT ![path] = File(data)], lk))

\* str(e) of the backend's folder conflict: the text is the library's, which
\* prints either the error's summary or, when repr holds, the error value
CreateFolderError(st, p, repr) ==
    IF st[p].kind = "folder"
    THEN IF repr
         THEN ApiError("CreateFolderError('path', WriteError('conflict', WriteConflictError('folder', None)))")
         ELSE ApiError("path/conflict/folder")
    ELSE IF st[p].kind = "file" THEN ApiError("path/conflict/file")
    ELSE NoExc

\* create_folder's own "except ApiError"
ExceptFolderConflict(r, path) ==
    IF r.raised /\ r.exc.cls = "ApiError"
    THEN IF \E i \in 1..Len(r.exc.msg) : r.exc.msg[i] = "path/conflict/folder"
         THEN Ret([success |-> TRUE, message |-> "Folder already exists",
                   path |-> path], r.calls, r.store, r.links)
         ELSE Ret(Failure(r.exc.msg), r.calls, r.store, r.links)
    ELSE r

create_folder(path, f, repr, e, st, lk) ==
    ExceptFolderConflict(
        OneCall(e, "files_create_folder_v2", path, f,
                CreateFolderError(st, path, repr),
                [success |-> TRUE, name |-> path, path |-> path],
                st, lk, [st EXCEPT ![path] = Folder], lk),
        path)

RelocationError(st, from, to) ==
    IF st[from].kind = "none" THEN ApiError("from_lookup/not_found")
    ELSE IF from = to THEN ApiError("duplicated_or_nested_paths")
    ELSE IF st[to].kind # "none" THEN ApiError("to/conflict")
    ELSE NoExc

move_file(from_path, to_path, f, e, st, lk) ==
    ExceptApiError(
        OneCall(e, "files_move_v2", from_path, f,
                RelocationError(st, from_path, to_path),
                [success |-> TRUE, from_path |-> from_path, to_path |-> to_path],
                st, lk,
                [st EXCEPT ![to_path] = st[from_path], ![from_path] = None],
                lk))

copy_file(from_path, to_path, f, e, st, lk) ==
    ExceptApiError(
        OneCall(e, "files_copy_v2", from_path, f,
                RelocationError(st, from_path, to_path),
                [success |-> TRUE, from_path |-> from_path, to_path |-> to_path],
                st, lk, [st EXCEPT ![to_path] = st[from_path]], lk))

delete_file(path, f, e, st, lk) ==
    ExceptApiError(
        OneCall(e, "files_delete_v2", path, f,
                IF st[path].kind = "none" THEN ApiError("path_lookup/not_found")
                ELSE NoExc,
                [success |-> TRUE, deleted_path |-> path,
                 note |-> "File moved to trash - can be recovered from Dropbox"],
                st, lk, [st EXCEPT ![path] = None], lk))

Url(path, k) == [link_of |-> path, serial |-> k]

\* lines 563-568
ExistingLink(path, url) ==
    [success |-> TRUE, url |-> url, path |-> path, existing |-> TRUE]

CreatedLink_flagged_existing(path, url) ==
    [success |-> TRUE, url |-> url, path |-> path, existing |-> TRUE]

\* lines 578-583
CreatedLink(path, url) ==
    [success |-> TRUE, url |-> url, path |-> path, existing |-> FALSE]

\* f1 is the fault injected into the lookup, f2 into the creation
get_shared_link(path, create_if_missing, f1, f2, e, st, lk) ==
    LET c == get_dropbox_client(e)
        n == lk[path]
        lookupErr == IF f1 # "none" THEN Injected(f1) ELSE NotFound(st, path)
        lookup == Call("sharing_list_shared_links", path, 0, lookupErr.cls,
                       IF lookupErr = NoExc THEN n ELSE 0, FALSE)
        createErr == IF f2 # "none" THEN Injected(f2)
                     ELSE IF st[path].kind = "none" THEN ApiError("path/not_found")
                     ELSE IF n > 0 THEN ApiError("shared_link_already_exists")
                     ELSE NoExc
        create == SimpleCall("sharing_create_shared_link_with_settings", path,
                             createErr.cls)
    IN  ExceptApiError(
            IF ~c.ok THEN Raise(c.exc, <<>>, st, lk)
            ELSE IF lookupErr # NoExc /\ lookupErr.cls # "ApiError"
                 THEN Raise(lookupErr, <<lookup>>, st, lk)
            ELSE IF lookupErr = NoExc /\ n > 0
                 THEN Ret(ExistingLink(path, Url(path, 1)), <<lookup>>, st, lk)
            ELSE IF create_if_missing
                 THEN IF createErr # NoExc
                      THEN Raise(createErr, <<lookup, create>>, st, lk)
                      ELSE Ret(CreatedLink(path, Url(path, n + 1)),
                               <<lookup, create>>, st,
                               [lk EXCEPT ![path] = n + 1])
            ELSE Ret(Failure(<<"No existing shared link found">>), <<lookup>>, st, lk))

\* the backend answers one page of n matches and says whether more exist
search_files(query, path, file_extensions, max_results, f, n, has_more, e, st, lk) ==
    LET c == get_dropbox_client(e)
        asked == Min(max_results, search_files_page_cap)
    IN  ExceptApiError(
            IF ~c.ok THEN Raise(c.exc, <<>>, st, lk)
            ELSE IF f # "none"
                 THEN Raise(Injected(f),
                            <<Call("files_search_v2", query, asked, f, 0, FALSE)>>,
                            st, lk)
            ELSE Ret([success |-> TRUE, query |-> query, count |-> n,
                      matches |-> Run(0, n)],
                     <<Call("files_search_v2", query, asked, "none", n, has_more)>>,
                     st, lk))

\* the backend answers the n revisions it has to give
list_revisions(path, limit, f, n, e, st, lk) ==
    LET c == get_dropbox_client(e)
        err == IF f # "none" THEN Injected(f) ELSE NotFile(st, path)
    IN  ExceptApiError(
            IF ~c.ok THEN Raise(c.exc, <<>>, st, lk)
            ELSE IF err # NoExc
                 THEN Raise(err,
                            <<Call("files_list_revisions", path, limit, err.cls, 0,
                                   FALSE)>>, st, lk)
            ELSE Ret([success |-> TRUE, path |-> path, count |-> n,
                      revisions |-> Run(0, n)],
                     <<Call("files_list_revisions", path, limit, "none", n, FALSE)>>,
                     st, lk))

\* usage is what the backend reports: bytes used, the allocation's kind and size
get_space_usage(f, usage, e, st, lk) ==
    LET allocated == IF usage.kind \in {"individual", "team"} THEN usage.allocated
                     ELSE 0
        known == usage.kind \in {"individual", "team"} /\ allocated # 0
    IN  ExceptApiError(
            OneCall(e, "users_get_space_usage", "", f, NoExc,
                    [success |-> TRUE, used |-> usage.used,
                     allocated |-> IF usage.kind \in {"individual", "team"}
                                   THEN <<allocated>> ELSE <<>>,
                     allocated_human |-> IF known THEN "sized" ELSE "Unlimited",
                     percent_used |-> IF known
                                      THEN <<(usage.used * 20000 + allocated)
                                             \div (2 * allocated)>>
                                      ELSE <<>>],
                    st, lk, st, lk))

\* test_connection's "except AuthError" then "except Exception": nothing gets out
ExceptAuthThenAny(r) ==
    IF ~r.raised THEN r
    ELSE IF r.exc.cls = "AuthError"
         THEN Ret(Failure(<<"Authentication failed: ">> \o r.exc.msg), r.calls,
                  r.store, r.links)
    ELSE Ret(Failure(r.exc.msg), r.calls, r.store, r.links)

test_connection(f, e, st, lk) ==
    ExceptAuthThenAny(
        OneCall(e, "users_get_current_account", "", f, NoExc,
                [success |-> TRUE, account_id |-> "dbid"], st, lk, st, lk))

--------------------------------------------------------------------------
(* list_folder, whose pagination loop runs one backend call per step *)

\* the provider's answer to a listing of path ("" is the root)
ListFolderError(st, path) ==
    IF path # "" /\ st[path].kind = "none" THEN ApiError("path/not_found")
    ELSE IF path # "" /\ st[path].kind = "file" THEN ApiError("path/not_folder")
    ELSE NoExc

\* lines 313-329: the for loop over one page, breaking once the limit is reached
ListFolderFor(entries, page, limit) ==
    IF page = <<>> THEN entries
    ELSE entries \o SubSeq(page, 1, Min(Len(page), Max(limit - Len(entries), 1)))

ListFolderBreak_at_limit_only(has_more, entries, limit) == Len(entries) >= limit

\* line 331: leave the while loop
ListFolderBreak(has_more, entries, limit) == ~has_more \/ Len(entries) >= limit

\* lines 335-340
ListFolderResult(path, entries, limit) ==
    [success |-> TRUE, path |-> IF path = "" THEN "/" ELSE path,
     count |-> Len(entries), entries |-> SliceTo(entries, limit)]

\* lines 308-310 answer a first page: the client is built, no fault is
\* injected and the provider accepts the path
ListFolderEnters(path, f, e, st) ==
    get_dropbox_client(e).ok /\ f = "none" /\ ListFolderError(st, path) = NoExc

\* lines 308-310 when they do not: what list_folder hands back without
\* entering its loop
ListFolderFirst(path, limit, f, e, st, lk) ==
    LET c == get_dropbox_client(e)
        asked == Min(limit, list_folder_page_cap)
        err == IF f # "none" THEN Injected(f) ELSE ListFolderError(st, path)
    IN  ExceptApiError(
            IF ~c.ok THEN Raise(c.exc, <<>>, st, lk)
            ELSE Raise(err,
                       <<Call("files_list_folder", path, asked, err.cls, 0, FALSE)>>,
                       st, lk))

--------------------------------------------------------------------------
(* JSON values of a request *)

\* params.name: a string, null, a number, or a list
NameStr(s) == [k |-> "str", s |-> s]
NameNull == [k |-> "null", s |-> "None"]
NameInt == [k |-> "int", s |-> "5"]
NameList == [k |-> "list", s |-> "['x']"]

\* params.arguments: a mapping m, null, or a list
ArgsObj(m) == [t |-> "object", m |-> m]
ArgsNull == [t |-> "null", m |-> <<>>]
ArgsArray == [t |-> "array", m |-> <<>>]

\* params: a mapping holding the keys in keys, null, or a list
ParamsObj(keys, name, arguments) ==
    [t |-> "object", keys |-> keys, name |-> name, arguments |-> arguments]
ParamsNull == [t |-> "null", keys |-> {}, name |-> NameNull, arguments |-> ArgsNull]
ParamsArray == [t |-> "array", keys |-> {}, name |-> NameNull, arguments |-> ArgsNull]

\* the parsed body: a mapping holding the keys in keys, or another JSON value
\* of which only the truth value matters
DataObj(keys, method, id, params) ==
    [t |-> "object", truthy |-> keys # {}, keys |-> keys, method |-> method,
     id |-> id, params |-> params]
DataOther(t, truthy) ==
    [t |-> t, truthy |-> truthy, keys |-> {}, method |-> "None", id |-> "null",
     params |-> ParamsNull]

\* dict.get of the keys mcp_handler reads
GetMethod(data) == IF "method" \in data.keys THEN data.method ELSE "None"
GetParams(data) ==
    IF "params" \in data.keys THEN data.params ELSE ParamsObj({}, NameNull, ArgsNull)
GetId(data) == IF "id" \in data.keys THEN data.id ELSE "1"
GetName(params) == IF "name" \in params.keys THEN params.name ELSE NameNull
GetArguments(params) ==
    IF "arguments" \in params.keys THEN params.arguments ELSE ArgsObj(<<>>)

Arg(m, k, default) == IF k \in DOMAIN m THEN m[k] ELSE default

--------------------------------------------------------------------------
(* call_tool *)

\* "name not in tool_map" hashes name: a list cannot be hashed
Hashable(name) == name.k # "list"

InToolMap(name) == name.k = "str" /\ name.s \in tool_map

\* tool_map[name](**arguments) cannot bind: arguments is no mapping, names a
\* parameter the implementation lacks, or lacks one without a default
BindError(t, arguments) ==
    \/ arguments.t # "object"
    \/ ~(DOMAIN arguments.m \subseteq ToolParams(t))
    \/ ~(ToolRequired(t) \subseteq DOMAIN arguments.m)

\* the implementation t applied to the mapping m; ch holds what the backend
\* answers: f1, f2 the injected faults, n and has_more the page, usage
Impl(t, m, ch, e, st, lk) ==
    CASE t = "list_folder" ->
           ListFolderFirst(Arg(m, "path", ""), Arg(m, "limit", list_folder_default_limit),
                           ch.f1, e, st, lk)
      [] t = "search_files" ->
           search_files(m.query, Arg(m, "path", "None"),
                        Arg(m, "file_extensions", <<>>),
                        Arg(m, "max_results", search_files_default_max_results),
                        ch.f1, ch.n, ch.has_more, e, st, lk)
      [] t = "get_file_metadata" -> get_file_metadata(m.path, ch.f1, e, st, lk)
      [] t = "download_file" ->
           download_file(m.path, Arg(m, "as_text", TRUE), ch.f1, e, st, lk)
      [] t = "read_text_file" ->
           read_text_file(m.path, Arg(m, "max_bytes", 1000000), ch.f1, e, st, lk)
      [] t = "upload_file" ->
           upload_file(m.path, m.content, Arg(m, "is_base64", FALSE),
                       Arg(m, "overwrite", TRUE), ch.f1, e, st, lk)
      [] t = "create_folder" -> create_folder(m.path, ch.f1, ch.repr, e, st, lk)
      [] t = "move_file" -> move_file(m.from_path, m.to_path, ch.f1, e, st, lk)
      [] t = "copy_file" -> copy_file(m.from_path, m.to_path, ch.f1, e, st, lk)
      [] t = "delete_file" -> delete_file(m.path, ch.f1, e, st, lk)
      [] t = "get_shared_link" ->
           get_shared_link(m.path, Arg(m, "create_if_missing", TRUE), ch.f1, ch.f2,
                           e, st, lk)
      [] t = "list_revisions" ->
           list_revisions(m.path, Arg(m, "limit", list_revisions_default_limit),
                          ch.f1, ch.n, e, st, lk)
      [] t = "get_space_usage" -> get_space_usage(ch.f1, ch.usage, e, st, lk)
      [] OTHER -> test_connection(ch.f1, e, st, lk)

\* what call_tool hands mcp_handler: it raised exc itself, or returned out.
\* invoked lists the implementation it called, caught is the class of the
\* exception its "except Exception" caught ("none" when nothing reached it),
\* pending says list_folder entered its loop and has not returned yet
Dispatched(raised, exc, out, impl, cls, pending, cl, st, lk) ==
    [raised |-> raised, exc |-> exc, out |-> out, invoked |-> impl,
     caught |-> cls, pending |-> pending, calls |-> cl, store |-> st,
     links |-> lk]

\* lines 693-697 around the implementation's outcome r
CallToolExcept(r) == IF r.raised THEN Failure(r.exc.msg) ELSE r.out

\* line 694 called implementation t, whose outcome is r
Invoked(t, r) ==
    Dispatched(FALSE, NoExc, CallToolExcept(r), <<t>>, r.exc.cls, FALSE, r.calls,
               r.store, r.links)

call_tool(name, arguments, ch, e, st, lk) ==
    IF ~Hashable(name)
    THEN Dispatched(TRUE, Exc("TypeError", <<"unhashable type: ", name.k>>),
                    Failure(<<>>), <<>>, "none", FALSE, <<>>, st, lk)
    ELSE IF ~InToolMap(name)
         THEN Dispatched(FALSE, NoExc, Failure(<<"Unknown tool: ", name.s>>), <<>>,
                         "none", FALSE, <<>>, st, lk)
    ELSE IF BindError(name.s, arguments)
         THEN Dispatched(FALSE, NoExc,
                         Failure(<<name.s, "() got unexpected or missing arguments">>),
                         <<>>, "TypeError", FALSE, <<>>, st, lk)
    ELSE IF /\ name.s = "list_folder"
            /\ ListFolderEnters(Arg(arguments.m, "path", ""), ch.f1, e, st)
         THEN Dispatched(FALSE, NoExc, Failure(<<>>), <<name.s>>, "none", TRUE,
                         <<>>, st, lk)
    ELSE Invoked(name.s, Impl(name.s, arguments.m, ch, e, st, lk))

--------------------------------------------------------------------------
(* mcp_handler *)

JsonResult(id, result) ==
    [status |-> 200, escaped |-> FALSE,
     body |-> [jsonrpc |-> "2.0", id |-> id, result |-> result]]

JsonError(status, id, code, message) ==
    [status |-> status, escaped |-> FALSE,
     body |-> [jsonrpc |-> "2.0", id |-> id,
               error |-> [code |-> code, message |-> message]]]

\* the handler itself raised: the transport gets no envelope from it
Escaped(exc) == [status |-> 500, escaped |-> TRUE, body |-> [exception |-> exc.cls]]

NoResp == [status |-> 0, escaped |-> FALSE, body |-> <<>>]

\* line 759: the envelope, serialised, as the one text block of the result
ToolCallContent(out) == [content |-> <<[type |-> "text", text |-> out]>>]

\* lines 770-776 when data is a non-empty mapping
InternalError(data, exc) == JsonError(500, GetId(data), -32603, exc.msg)

NoDispatch(st, lk) ==
    Dispatched(FALSE, NoExc, Failure(<<>>), <<>>, "none", FALSE, <<>>, st, lk)

\* the handler's response and what it did on the way: whether it called
\* call_tool, and call_tool's record d
Handled(r, dispatched, d) ==
    [resp |-> r, dispatched |-> dispatched, invoked |-> d.invoked,
     caught |-> d.caught, pending |-> d.pending, calls |-> d.calls,
     store |-> d.store, links |-> d.links]

\* lines 753-761, or 770-776 when call_tool raised; d is call_tool's record
ToolCallResponse(data, d) ==
    IF d.raised
    THEN Handled(InternalError(data, d.exc), TRUE, d)
    ELSE Handled(JsonResult(GetId(data), ToolCallContent(d.out)), TRUE, d)

\* rq.get_json is what request.get_json() does with the body: "raise", or
\* "value" when it returns rq.data (None is the JSON null)
ToolsListResult_without_last(tools) ==
    [tools |-> SubSeq(tools, 1, Len(tools) - 1)]

\* lines 742-747
ToolsListResult(tools) == [tools |-> tools]

mcp_handler(rq, ch, e, tools, st, lk) ==
    LET data == rq.data
        method == GetMethod(data)
        params == GetParams(data)
        msg_id == GetId(data)
        nd == NoDispatch(st, lk)
    IN  IF rq.get_json = "raise"
        THEN \* line 718 raises, and line 774 reads data, which was never bound
             Handled(Escaped(Exc("UnboundLocalError", <<"data">>)), FALSE, nd)
        ELSE IF ~data.truthy
        THEN Handled(JsonError(400, "null", -32700, <<"Parse error">>), FALSE, nd)
        ELSE IF data.t # "object"
        THEN \* line 722 raises AttributeError, and so does line 774
             Handled(Escaped(Exc("AttributeError", <<"get">>)), FALSE, nd)
        ELSE IF method = "initialize"
        THEN Handled(JsonResult(msg_id,
                                [protocolVersion |-> "2024-11-05",
                                 capabilities |-> [tools |-> [listChanged |-> TRUE]],
                                 serverInfo |-> [name |-> "dropbox-mcp",
                                                 version |-> "1.0.0"]]),
                     FALSE, nd)
        ELSE IF method = "notifications/initialized"
        THEN Handled(JsonResult(msg_id, <<>>), FALSE, nd)
        ELSE IF method = "tools/list"
        THEN Handled(JsonResult(msg_id, ToolsListResult(tools)), FALSE, nd)
        ELSE IF method = "tools/call"
        THEN IF params.t # "object"
             THEN Handled(InternalError(data, Exc("AttributeError", <<"get">>)),
                          FALSE, nd)
             ELSE ToolCallResponse(data, call_tool(GetName(params),
                                                   GetArguments(params), ch, e,
                                                   st, lk))
        ELSE Handled(JsonError(200, msg_id, -32601,
                               <<"Method not found: ", method>>), FALSE, nd)

--------------------------------------------------------------------------
(* The inputs: requests, and what the backend answers *)

PageLens == (0..MaxPage) \cup {BigPage}
Limits == (-1)..MaxLimit

\* text contents: "hi"; "e" with an acute accent; the euro sign and an emoji
\* (three and four bytes in UTF-8); a lone surrogate, which JSON can carry and
\* UTF-8 cannot
Texts == {<<104, 105>>, <<233>>, <<8364, 128512>>, <<55296>>}
\* contents sent as base64: "/w==", the base64 of the byte 255; "hi", whose
\* padding is wrong; a non-ASCII string
Encoded == {<<47, 119, 61, 61>>, <<104, 105>>, <<233>>}

ArgMaps(t) ==
    CASE t = "list_folder" ->
           {<<>>, [path |-> "/a", recursive |-> TRUE, limit |-> 1], [depth |-> 1]}
           \cup {[limit |-> l] : l \in Limits}
      [] t = "search_files" ->
           {<<>>, [query |-> "q"],
            [query |-> "q", path |-> "/a", file_extensions |-> <<"pdf">>,
             max_results |-> 1]}
           \cup {[query |-> "q", max_results |-> l] : l \in 1..MaxLimit}
      [] t = "list_revisions" ->
           {[path |-> "/a"]} \cup {[path |-> "/a", limit |-> l] : l \in 1..MaxLimit}
      [] t \in {"get_file_metadata", "delete_file"} ->
           {<<>>} \cup {[path |-> p] : p \in Paths}
      [] t = "create_folder" ->
           {[name |-> "/a"]} \cup {[path |-> p] : p \in Paths}
      [] t = "download_file" ->
           {[path |-> "/a"], [path |-> "/a", as_text |-> FALSE]}
      [] t = "read_text_file" ->
           {[path |-> "/a"], [path |-> "/a", max_bytes |-> 1]}
      [] t = "upload_file" ->
           {[path |-> "/a"]}
           \cup {[path |-> "/a", content |-> c] : c \in Texts}
           \cup {[path |-> "/a", content |-> c, is_base64 |-> TRUE] : c \in Encoded}
           \cup {[path |-> "/a", content |-> <<104, 105>>, overwrite |-> FALSE],
                 [path |-> "/b", content |-> <<104, 105>>]}
      [] t \in {"move_file", "copy_file"} ->
           {[from_path |-> "/a", to_path |-> "/b"],
            [from_path |-> "/b", to_path |-> "/a"],
            [from_path |-> "/a", to_path |-> "/a"]}
      [] t = "get_shared_link" ->
           {[path |-> "/a"]}
           \cup {[path |-> "/a", create_if_missing |-> b] : b \in BOOLEAN}
      [] OTHER -> {<<>>, [verbose |-> TRUE]}

Request(body, get_json, data) == [body |-> body, get_json |-> get_json, data |-> data]

\* a mapping with the given method, id and params; "absent" leaves the key out
Obj(method, id, params) ==
    DataObj({"jsonrpc"}
            \cup (IF method = "absent" THEN {} ELSE {"method"})
            \cup (IF id = "absent" THEN {} ELSE {"id"})
            \cup (IF params = "absent" THEN {} ELSE {"params"}),
            IF method = "absent" THEN "None" ELSE method,
            IF id = "absent" THEN "1" ELSE id,
            IF params = "absent" THEN ParamsNull
            ELSE IF params = "array" THEN ParamsArray ELSE ParamsNull)

\* a tools/call with id 7 and the given params
Call7(params) == DataObj({"jsonrpc", "method", "id", "params"}, "tools/call", "7", params)

Bodies ==
    {DataOther("null", FALSE), DataOther("scalar", FALSE), DataOther("scalar", TRUE),
     DataOther("array", FALSE), DataOther("array", TRUE),
     DataObj({}, "None", "1", ParamsNull)}
    \cup {Obj(m, i, p) :
            m \in {"absent", "initialize", "notifications/initialized", "tools/list",
                   "nonexistent"},
            i \in {"absent", "7", "null"}, p \in {"absent", "array"}}
    \cup {Obj("tools/call", i, p) : i \in {"absent", "7"},
                                    p \in {"absent", "array", "null"}}
    \cup {Call7(ParamsObj(k, nm, ArgsObj(<<>>))) :
            k \in {{}, {"arguments"}, {"name"}, {"name", "arguments"}},
            nm \in {NameNull, NameInt, NameList, NameStr("bogus")}}
    \cup {Call7(ParamsObj(k, NameStr(t), a)) :
            k \in {{"name"}, {"name", "arguments"}},
            t \in {"get_space_usage", "create_folder"}, a \in {ArgsNull, ArgsArray}}
    \cup UNION {{Call7(ParamsObj({"name", "arguments"}, NameStr(t), ArgsObj(m))) :
                    m \in ArgMaps(t)} : t \in tool_map}

Requests ==
    {Request("unparseable", g, DataOther("null", FALSE)) : g \in {"raise", "value"}}
    \cup {Request("json", "value", d) : d \in Bodies}

Usages ==
    {[used |-> 1, kind |-> "individual", allocated |-> 4],
     [used |-> 1, kind |-> "team", allocated |-> 0],
     [used |-> 1, kind |-> "other", allocated |-> 0]}

NoChoice ==
    [f1 |-> "none", f2 |-> "none", n |-> 0, has_more |-> FALSE, repr |-> FALSE,
     usage |-> [used |-> 1, kind |-> "other", allocated |-> 0]]

\* the implementation the request reaches, "" when it reaches none
Target(rq) ==
    LET data == rq.data
        params == GetParams(data)
        name == GetName(params)
    IN  IF /\ rq.get_json = "value"
           /\ data.truthy
           /\ data.t = "object"
           /\ GetMethod(data) = "tools/call"
           /\ params.t = "object"
           /\ InToolMap(name)
           /\ ~BindError(name.s, GetArguments(params))
        THEN name.s ELSE ""

\* what the backend may answer to the calls the request leads to
Choices(rq) ==
    LET t == Target(rq)
        faulty == {[NoChoice EXCEPT !.f1 = f] : f \in Faults \ {"none"}}
    IN  CASE t = "" -> {NoChoice}
          [] t \in {"list_folder", "search_files"} ->
               faulty \cup {[NoChoice EXCEPT !.n = n, !.has_more = h] :
                              n \in PageLens, h \in BOOLEAN}
          [] t = "list_revisions" ->
               faulty \cup {[NoChoice EXCEPT !.n = n] : n \in PageLens}
          [] t = "get_shared_link" ->
               {[NoChoice EXCEPT !.f1 = f, !.f2 = g] : f \in Faults, g \in Faults}
          [] t = "get_space_usage" ->
               faulty \cup {[NoChoice EXCEPT !.usage = u] : u \in Usages}
          [] t = "create_folder" ->
               {[NoChoice EXCEPT !.f1 = f, !.repr = r] : f \in Faults, r \in BOOLEAN}
          [] OTHER -> {[NoChoice EXCEPT !.f1 = f] : f \in Faults}

\* the credentials a process may be started with: the refresh-token triple,
\* an access token alone, nothing
Envs ==
    {[refresh_token |-> TRUE, app_key |-> TRUE, app_secret |-> TRUE,
      access_token |-> FALSE],
     [refresh_token |-> FALSE, app_key |-> FALSE, app_secret |-> FALSE,
      access_token |-> TRUE],
     [refresh_token |-> FALSE, app_key |-> FALSE, app_secret |-> FALSE,
      access_token |-> FALSE]}

--------------------------------------------------------------------------
(* The state machine *)

NoRequest == Request("none", "value", DataOther("null", FALSE))

NoListing ==
    [path |-> "", limit |-> 0, entries |-> <<>>, has_more |-> FALSE, seen |-> 0,
     continued |-> 0]

NoRun ==
    [path |-> "", n |-> 0, prev |-> Failure(<<>>), last |-> Failure(<<>>), after |-> {}]

Folders(st) == {p \in Paths : st[p].kind = "folder"}

\* the run of create_folder calls after the handler did h on rq: a call the
\* backend answered extends the run on its path or, on a fresh path, starts
\* one; anything else ends the run
RunAfter(run, rq, ch, h, st) ==
    LET p == GetArguments(GetParams(rq.data)).m.path
        out == h.resp.body.result.content[1].text
    IN  IF Target(rq) = "create_folder" /\ h.calls # <<>> /\ ch.f1 = "none"
        THEN IF run.n >= 1 /\ run.path = p
             THEN [run EXCEPT !.n = Min(run.n + 1, MaxRepeat), !.prev = run.last,
                              !.last = out]
             ELSE IF st[p].kind = "none"
                  THEN [path |-> p, n |-> 1, prev |-> out, last |-> out,
                        after |-> Folders(h.store)]
             ELSE NoRun
        ELSE NoRun

\* the request is answered by the initialize branch (lines 728-737)
Initializes(rq) ==
    /\ rq.get_json = "value"
    /\ rq.data.truthy
    /\ rq.data.t = "object"
    /\ GetMethod(rq.data) = "initialize"

NoText == [ok |-> FALSE, text |-> <<>>]

\* the upload history after the handler did h on rq: a text upload that
\* succeeded is the last write to its path; any other change of a path, and a
\* base64 upload to it, ends what was known of it
UploadedAfter(up, rq, h, st) ==
    LET m == GetArguments(GetParams(rq.data)).m
        wrote == /\ Target(rq) = "upload_file"
                 /\ h.resp.body.result.content[1].text.success
    IN  [p \in Paths |->
           IF wrote /\ m.path = p
           THEN IF Arg(m, "is_base64", FALSE) THEN NoText
                ELSE [ok |-> TRUE, text |-> m.content]
           ELSE IF h.store[p] # st[p] THEN NoText
           ELSE up[p]]

Init ==
    /\ env \in Envs
    /\ TOOLS = Catalog
    /\ store = [p \in Paths |-> None]
    /\ links = [p \in Paths |-> 0]
    /\ pc = "idle"
    /\ req = NoRequest
    /\ resp = NoResp
    /\ invoked = <<>>
    /\ caught = "none"
    /\ calls = <<>>
    /\ lf = NoListing
    /\ cf = NoRun
    /\ uploaded = [p \in Paths |-> NoText]
    /\ initialized = FALSE

\* POST /mcp: the handler runs to its response, or into list_folder's loop
HandleRequest ==
    /\ pc = "idle"
    /\ \E rq \in Requests :
         \E ch \in Choices(rq) :
          \E h \in {mcp_handler(rq, ch, env, TOOLS, store, links)} :
            LET m == GetArguments(GetParams(rq.data)).m
                path == Arg(m, "path", "")
                limit == Arg(m, "limit", list_folder_default_limit)
            IN  /\ req' = rq
                /\ invoked' = h.invoked
                /\ caught' = h.caught
                /\ store' = h.store
                /\ links' = h.links
                /\ IF h.pending
                   THEN /\ pc' = "list_folder"
                        /\ resp' = NoResp
                        /\ calls' = <<Call("files_list_folder", path,
                                           Min(limit, list_folder_page_cap), "none",
                                           ch.n, ch.has_more)>>
                        /\ lf' = [path |-> path, limit |-> limit,
                                  entries |-> ListFolderFor(<<>>, Run(0, ch.n), limit),
                                  has_more |-> ch.has_more, seen |-> ch.n,
                                  continued |-> 0]
                        /\ cf' = NoRun
                        /\ UNCHANGED <<uploaded, initialized>>
                   ELSE /\ pc' = "done"
                        /\ resp' = h.resp
                        /\ calls' = h.calls
                        /\ lf' = NoListing
                        /\ cf' = RunAfter(cf, rq, ch, h, store)
                        /\ uploaded' = UploadedAfter(uploaded, rq, h, store)
                        /\ initialized' = (initialized \/ Initializes(rq))
    /\ UNCHANGED <<env, TOOLS>>

\* line 333: one more page is asked for; the backend raises a fault or
\* answers a page of n entries
ListFolderContinue ==
    /\ pc = "list_folder"
    /\ ~ListFolderBreak(lf.has_more, lf.entries, lf.limit)
    /\ \E ch \in Choices(req) :
         /\ ch.n \in {0, BigPage} \/ lf.seen + ch.n <= MaxSeen
         /\ calls' = <<calls[1],
                       Call("files_list_folder_continue", lf.path, 0, ch.f1, ch.n,
                            ch.has_more)>>
         /\ IF ch.f1 = "none"
            THEN /\ lf' = [lf EXCEPT
                             !.entries = ListFolderFor(lf.entries,
                                                       Run(lf.seen, ch.n), lf.limit),
                             !.has_more = ch.has_more,
                             !.seen = lf.seen + ch.n,
                             !.continued = (lf.continued + 1) % 2]
                 /\ UNCHANGED <<pc, resp, caught>>
            ELSE /\ pc' = "done"
                 /\ caught' = IF ch.f1 = "ApiError" THEN "none" ELSE ch.f1
                 /\ resp' = JsonResult(
                               GetId(req.data),
                               ToolCallContent(
                                 CallToolExcept(
                                   ExceptApiError(
                                     Raise(Injected(ch.f1), <<>>, store, links)))))
                 /\ UNCHANGED lf
    /\ UNCHANGED <<env, TOOLS, store, links, req, invoked, cf, uploaded,
                   initialized>>

\* lines 335-340 and the way back through call_tool and mcp_handler
ListFolderReturn ==
    /\ pc = "list_folder"
    /\ ListFolderBreak(lf.has_more, lf.entries, lf.limit)
    /\ pc' = "done"
    /\ resp' = JsonResult(GetId(req.data),
                          ToolCallContent(ListFolderResult(lf.path, lf.entries,
                                                           lf.limit)))
    /\ UNCHANGED <<env, TOOLS, store, links, req, invoked, caught, calls, lf, cf,
                   uploaded, initialized>>

\* the transport sends the response; nothing of the request is kept
Deliver ==
    /\ pc = "done"
    /\ pc' = "idle"
    /\ req' = NoRequest
    /\ resp' = NoResp
    /\ invoked' = <<>>
    /\ caught' = "none"
    /\ calls' = <<>>
    /\ lf' = NoListing
    /\ UNCHANGED <<env, TOOLS, store, links, cf, uploaded, initialized>>

Next == HandleRequest \/ ListFolderContinue \/ ListFolderReturn \/ Deliver

Spec == Init /\ [][Next]_vars

\* list_folder's loop is sequential code: while the backend answers, the
\* next statement of the loop is executed
LiveSpec ==
    /\ Spec
    /\ WF_vars(ListFolderContinue)
    /\ WF_vars(ListFolderReturn)

--------------------------------------------------------------------------
(* What the properties speak of, in a state where a response is ready *)

Done == pc = "done"

Data == req.data
Params == GetParams(Data)
Name == GetName(Params)
Arguments == GetArguments(Params)

\* the body was parsed, and to a mapping
IsObject == req.body = "json" /\ req.get_json = "value" /\ Data.t = "object"

\* a tools/call whose params is a mapping, so that call_tool is called
ToolsCall ==
    IsObject /\ Data.truthy /\ GetMethod(Data) = "tools/call" /\ Params.t = "object"

KnownMethods == {"initialize", "notifications/initialized", "tools/list", "tools/call"}

HasResult == "result" \in DOMAIN resp.body
HasError == "error" \in DOMAIN resp.body

\* the envelope the response carries
Envelope == resp.body.result.content[1].text

Contains(msg, tok) == \E i \in 1..Len(msg) : msg[i] = tok

Listing == Target(req) \in {"list_folder", "search_files", "list_revisions"}

\* the ceiling the listing request asks for, the default when it names none
Ceiling ==
    CASE Target(req) = "list_folder" ->
           Arg(Arguments.m, "limit", list_folder_default_limit)
      [] Target(req) = "search_files" ->
           Arg(Arguments.m, "max_results", search_files_default_max_results)
      [] OTHER -> Arg(Arguments.m, "limit", list_revisions_default_limit)

\* the entries the listing's envelope holds
Items ==
    CASE Target(req) = "list_folder" -> Envelope.entries
      [] Target(req) = "search_files" -> Envelope.matches
      [] OTHER -> Envelope.revisions

LookupOp == "sharing_list_shared_links"
CreateOp == "sharing_create_shared_link_with_settings"

\* the lookup answered with at least one link
Found == calls # <<>> /\ calls[1].raised = "none" /\ calls[1].n > 0
Created == \E i \in 1..Len(calls) : calls[i].op = CreateOp

--------------------------------------------------------------------------
(* The properties *)

\* C1: every tools/call, whatever its name and arguments are and whatever
\* the backend raises, is answered with a result that holds the envelope as
\* one text block, never with an error; a name outside the catalog gives an
\* envelope with success false.
C1_ToolsCallYieldsResult ==
    (Done /\ ToolsCall) =>
        /\ ~resp.escaped
        /\ HasResult
        /\ ~HasError
        /\ Len(resp.body.result.content) = 1
        /\ resp.body.result.content[1].type = "text"
        /\ "success" \in DOMAIN Envelope
        /\ (~InToolMap(Name) => Envelope.success = FALSE)

\* C2: a body that cannot be parsed is answered with the error -32700 and a
\* null id, and no tool and no backend call is reached.
C2_UnparseableIsParseError ==
    (Done /\ req.body = "unparseable") =>
        /\ ~resp.escaped
        /\ HasError
        /\ ~HasResult
        /\ resp.body.error.code = -32700
        /\ resp.body.id = "null"
        /\ invoked = <<>>
        /\ calls = <<>>

\* C3: every parsed request whose method is none of the four
\* (or is missing) is answered with the error -32601 under the request's id,
\* and no tool and no backend call is made.
C3_UnknownMethodIsNotFound ==
    (Done /\ IsObject /\ GetMethod(Data) \notin KnownMethods) =>
        /\ ~resp.escaped
        /\ HasError
        /\ resp.body.error.code = -32601
        /\ ("id" \in Data.keys => resp.body.id = Data.id)
        /\ invoked = <<>>
        /\ calls = <<>>

\* C4: whatever the request is, the handler answers with an envelope that
\* holds exactly one of result and error, and no fault gets out of it; an
\* unexpected fault is answered with the code -32603.
C4_AlwaysAnEnvelope ==
    Done =>
        /\ ~resp.escaped
        /\ HasResult \/ HasError
        /\ ~(HasResult /\ HasError)
        /\ "id" \in DOMAIN resp.body
        /\ (resp.status = 500 => HasError /\ resp.body.error.code = -32603)

\* C5: for a name that is no key of tool_map, call_tool returns a failure
\* envelope whose message holds the name; it raises nothing and reaches no
\* implementation and no backend call.
C5_UnknownNameIsFailure ==
    (Done /\ ToolsCall /\ ~InToolMap(Name)) =>
        /\ HasResult
        /\ Envelope.success = FALSE
        /\ Contains(Envelope.error, Name.s)
        /\ invoked = <<>>
        /\ calls = <<>>
        /\ caught = "none"

\* C6: a successful listing with a ceiling of at least 1 holds at most that
\* many entries, reports a count of at most that many, and its entries are
\* the first ones the backend gave, in the backend's order.
C6_ListingWithinLimit ==
    (Done /\ Listing /\ HasResult /\ Envelope.success /\ Ceiling >= 1) =>
        /\ Len(Items) <= Ceiling
        /\ Envelope.count <= Ceiling
        /\ Items = Run(0, Len(Items))

\* C7: a successful listing that holds fewer entries than its ceiling is
\* returned only after the backend said there are no more pages.
C7_ShortListingOnlyWhenExhausted ==
    (Done /\ Listing /\ HasResult /\ Envelope.success /\ Len(Items) < Ceiling) =>
        /\ calls # <<>>
        /\ calls[Len(calls)].raised = "none"
        /\ calls[Len(calls)].has_more = FALSE

\* C8: no implementation that call_tool invoked lets a fault reach
\* call_tool: every fault of the backend or of building its client becomes
\* a failure envelope inside the implementation.
C8_NoImplementationRaises ==
    (Done /\ invoked # <<>>) => caught = "none"

\* C9: get_shared_link looks existing links up before it creates one; it
\* creates one only when create_if_missing holds and the lookup gave no
\* link; a success says existing exactly when its url is the lookup's, and
\* not existing exactly when this invocation created it; without
\* create_if_missing nothing is created and no link found is a failure.
C9_SharedLinkLookupFirst ==
    (Done /\ Target(req) = "get_shared_link") =>
        /\ calls # <<>> => calls[1].op = LookupOp
        /\ \A i \in 1..Len(calls) : calls[i].op = CreateOp => i > 1
        /\ Created => Arg(Arguments.m, "create_if_missing", TRUE) /\ ~Found
        /\ Envelope.success =>
             /\ Envelope.existing <=>
                  (Found /\ ~Created /\ Envelope.url = Url(Arguments.m.path, 1))
             /\ ~Envelope.existing <=>
                  (Created /\ calls[Len(calls)].op = CreateOp
                           /\ calls[Len(calls)].raised = "none")
        /\ ~Arg(Arguments.m, "create_if_missing", TRUE) =>
             /\ ~Created
             /\ ~Found => Envelope.success = FALSE

C9_Witness ==
    /\ Done
    /\ Target(req) = "get_shared_link"
    /\ Envelope.success
    /\ ~Envelope.existing
    /\ Len(calls) = 2
    /\ calls[1].op = LookupOp
    /\ calls[2].op = CreateOp

\* C10: in a run of create_folder calls on one path that the backend
\* answers, the first, on a fresh path, is a success; every later one is a
\* success with the note "Folder already exists"; from the second on the
\* results are the same; and the backend's folders stay those the first
\* call left.
C10_CreateFolderIdempotent ==
    (Done /\ cf.n >= 1) =>
        /\ HasResult
        /\ Envelope = cf.last
        /\ cf.last.success
        /\ cf.n = 1 => "message" \notin DOMAIN cf.last
        /\ cf.n >= 2 =>
             /\ "message" \in DOMAIN cf.last
             /\ cf.last.message = "Folder already exists"
             /\ Folders(store) = cf.after
             /\ cf.path \in Folders(store)
        /\ cf.n >= 3 => cf.last = cf.prev

\* C11: when a text upload (is_base64 false) that succeeded is the last write
\* to a path, a download of the path with as_text true that the backend
\* answers returns a success whose content is the uploaded text and whose
\* encoding is "utf-8".
C11_TextRoundTrip ==
    (/\ Done
     /\ Target(req) = "download_file"
     /\ Arg(Arguments.m, "as_text", TRUE)
     /\ uploaded[Arguments.m.path].ok
     /\ calls # <<>>
     /\ calls[1].raised = "none") =>
        /\ HasResult
        /\ Envelope.success
        /\ Envelope.content = uploaded[Arguments.m.path].text
        /\ Envelope.encoding = "utf-8"

C11_Witness ==
    /\ Done
    /\ Target(req) = "download_file"
    /\ Arg(Arguments.m, "as_text", TRUE)
    /\ uploaded[Arguments.m.path] = [ok |-> TRUE, text |-> <<8364, 128512>>]
    /\ Envelope.success
    /\ Envelope.content = <<8364, 128512>>
    /\ Envelope.encoding = "utf-8"

\* C12: the catalog is never changed by a request, and every tools/list,
\* whatever requests came before it and whether or not an initialize was one
\* of them, returns the whole catalog: the same descriptors, as many, in the
\* same order.
C12_ToolsListIsTheCatalog ==
    /\ TOOLS = Catalog
    /\ (Done /\ IsObject /\ Data.truthy /\ GetMethod(Data) = "tools/list") =>
          /\ ~resp.escaped
          /\ HasResult
          /\ ~HasError
          /\ resp.body.result.tools = Catalog
          /\ Len(resp.body.result.tools) = Len(ToolNames)
          /\ \A i \in 1..Len(ToolNames) :
                resp.body.result.tools[i].name = ToolNames[i]

\* a tools/list answered with the catalog with no initialize before it, after
\* a tool call that changed the backend
C12_Witness ==
    /\ Done
    /\ IsObject
    /\ Data.truthy
    /\ GetMethod(Data) = "tools/list"
    /\ ~initialized
    /\ store["/a"].kind # "none"
    /\ HasResult
    /\ resp.body.result.tools = Catalog

\* C13: whatever the limit is and whatever finite pages the backend answers,
\* empty pages with has_more true included, a list_folder invocation that
\* entered its pagination loop eventually returns an envelope.
C13_ListFolderTerminates == (pc = "list_folder") ~> Done

\* C14: list_folder asks for a continuation page (a step of its loop that
\* adds a backend call or is answered a page) only in a state where the
\* last page said has_more and fewer than limit entries are accumulated; when
\* the limit is reached exactly at the end of a page that said has_more, it
\* asks for no further page.
C14_ContinueOnlyWhenNeeded ==
    [][(pc = "list_folder" /\ (calls' # calls \/ lf'.continued # lf.continued)) =>
          /\ lf.has_more
          /\ Len(lf.entries) < lf.limit
          /\ calls[Len(calls)].has_more]_vars

\* a continuation page was asked for and answered, and the listing then
\* returned with the limit reached exactly at the end of a page that said
\* has_more
C14_Witness ==
    /\ Done
    /\ Target(req) = "list_folder"
    /\ Len(calls) = 2
    /\ calls[2].op = "files_list_folder_continue"
    /\ calls[2].raised = "none"
    /\ calls[2].has_more
    /\ calls[2].n >= 1
    /\ lf.seen = lf.limit
    /\ Len(lf.entries) = lf.limit
    /\ Envelope.success
    /\ Envelope.count = lf.limit

====
